---- MODULE Spec2Model ----
(***************************************************************************)
(* Model of the tech-support chat window (src/app.py): the ModelWorker     *)
(* thread, the markdown renderer, the conversation store and the           *)
(* typing-indicator / reveal animations of ChatWindow.                     *)
(*                                                                         *)
(* Text is a sequence of one-character strings.  Rendered HTML is a        *)
(* sequence of tokens: one-character strings for text, and whole strings   *)
(* ("<b>", "&amp;", "<br>", ...) for the entities and tags the renderer    *)
(* inserts.  List indices are 0-based as in the source; None is -1.        *)
(***************************************************************************)
EXTENDS Integers, Sequences, FiniteSets, TLC

\* ------------------------------------------------------------------ bounds
MaxSubmissions == 2
MaxPieces == 1
MaxRichPieces == 3
MaxListPieces == 5
MaxEscPieces == 4

\* ------------------------------------------------------- program constants
None == -1

BOT_NAME == <<"L", "e", "o">>

YOU == <<"Y", "o", "u">>

WELCOME_MESSAGES == { <<"H", "i", "!">> }

\* ------------------------------------------------------------ text helpers
\* the token of the backquote character (U+0060), the inline-code delimiter
Backquote == "bq"

IsSpace(c) == c \in {" ", "\n"}

RECURSIVE LStrip(_)
LStrip(s) == IF s # <<>> /\ IsSpace(Head(s)) THEN LStrip(Tail(s)) ELSE s

RECURSIVE RStrip(_)
RStrip(s) ==
    IF s # <<>> /\ IsSpace(s[Len(s)]) THEN RStrip(SubSeq(s, 1, Len(s) - 1)) ELSE s

\* a slip that takes the text as typed
Strip_none(s) == s

Strip(s) == RStrip(LStrip(s))

LowerChar(c) ==
    CASE c = "L" -> "l"
      [] c = "E" -> "e"
      [] c = "O" -> "o"
      [] c = "A" -> "a"
      [] OTHER -> c

Lower(s) == [i \in 1..Len(s) |-> LowerChar(s[i])]

StartsWith(s, p) == Len(s) >= Len(p) /\ SubSeq(s, 1, Len(p)) = p

\* position of the first c in s, 0 when there is none
FirstIndexOf(s, c) ==
    IF \E i \in 1..Len(s) : s[i] = c
    THEN CHOOSE i \in 1..Len(s) : s[i] = c /\ \A k \in 1..(i - 1) : s[k] # c
    ELSE 0

RECURSIVE Concat(_)
Concat(ss) == IF ss = <<>> THEN <<>> ELSE Head(ss) \o Concat(Tail(ss))

\* ------------------------------------------------------- markdown_to_html
EscapeChar_no_gt(c) ==
    CASE c = "&" -> "&amp;"
      [] c = "<" -> "&lt;"
      [] OTHER -> c

EscapeChar(c) ==
    CASE c = "&" -> "&amp;"
      [] c = "<" -> "&lt;"
      [] c = ">" -> "&gt;"
      [] OTHER -> c

EscapeHtml(text) == [i \in 1..Len(text) |-> EscapeChar(text[i])]

NoNewline(text, a, b) == \A k \in a..b : text[k] # "\n"

\* re.sub of d, lazy non-empty run without newline, d, for a one-character
\* delimiter d (inline code and italic): end of the
\* shortest match that starts at i, 0 when no match starts at i
Close1(text, i, d) ==
    LET ends == {j \in (i + 2)..Len(text) :
                    text[j] = d /\ NoNewline(text, i + 1, j - 1)}
    IN IF text[i] = d /\ ends # {}
       THEN CHOOSE j \in ends : \A k \in ends : j <= k
       ELSE 0

RECURSIVE Sub1(_, _, _, _, _)
Sub1(text, i, d, open, close) ==
    IF i > Len(text) THEN <<>>
    ELSE LET j == Close1(text, i, d)
         IN IF j # 0
            THEN <<open>> \o SubSeq(text, i + 1, j - 1) \o <<close>>
                    \o Sub1(text, j + 1, d, open, close)
            ELSE <<text[i]>> \o Sub1(text, i + 1, d, open, close)

\* re.sub for bold: start of the closing ** of the shortest
\* match that starts at i, 0 when no match starts at i
Close2(text, i) ==
    LET ends == {j \in (i + 3)..(Len(text) - 1) :
                    /\ text[j] = "*" /\ text[j + 1] = "*"
                    /\ NoNewline(text, i + 2, j - 1)}
    IN IF i + 1 <= Len(text) /\ text[i] = "*" /\ text[i + 1] = "*" /\ ends # {}
       THEN CHOOSE j \in ends : \A k \in ends : j <= k
       ELSE 0

RECURSIVE Sub2(_, _)
Sub2(text, i) ==
    IF i > Len(text) THEN <<>>
    ELSE LET j == Close2(text, i)
         IN IF j # 0
            THEN <<"<b>">> \o SubSeq(text, i + 2, j - 1) \o <<"</b>">>
                    \o Sub2(text, j + 2)
            ELSE <<text[i]>> \o Sub2(text, i + 1)

InlineMarkup(text) ==
    LET code == Sub1(text, 1, Backquote, "<code>", "</code>")
        bold == Sub2(code, 1)
    IN Sub1(bold, 1, "*", "<i>", "</i>")

\* str.splitlines() for texts whose only line break is "\n"
RECURSIVE SplitLines(_)
SplitLines(text) ==
    IF text = <<>> THEN <<>>
    ELSE LET n == FirstIndexOf(text, "\n")
         IN IF n = 0 THEN <<text>>
            ELSE <<SubSeq(text, 1, n - 1)>>
                    \o SplitLines(SubSeq(text, n + 1, Len(text)))

\* number of leading whitespace tokens of line from position p on
RECURSIVE SpaceRun(_, _)
SpaceRun(line, p) ==
    IF p <= Len(line) /\ line[p] = " " THEN 1 + SpaceRun(line, p + 1) ELSE 0

RECURSIVE DigitRun(_, _)
DigitRun(line, p) ==
    IF p <= Len(line) /\ line[p] \in {"0", "1", "2"}
    THEN 1 + DigitRun(line, p + 1) ELSE 0

\* li_ul_re (optional blanks, - or *, blanks, rest): <<matched, group(1)>>
MatchUl(line) ==
    LET p == 1 + SpaceRun(line, 1)
        w == SpaceRun(line, p + 1)
    IN IF p <= Len(line) /\ line[p] \in {"-", "*"} /\ w >= 1
       THEN <<TRUE, SubSeq(line, p + 1 + w, Len(line))>>
       ELSE <<FALSE, <<>>>>

\* li_ol_re (optional blanks, digits, ., blanks, rest): <<matched, group(1)>>
MatchOl(line) ==
    LET p == 1 + SpaceRun(line, 1)
        d == DigitRun(line, p)
        q == p + d
        w == SpaceRun(line, q + 1)
    IN IF d >= 1 /\ q <= Len(line) /\ line[q] = "." /\ w >= 1
       THEN <<TRUE, SubSeq(line, q + 1 + w, Len(line))>>
       ELSE <<FALSE, <<>>>>

\* the loop over lines; st = [out |-> out_lines, in_ul, in_ol]
ListStep(st, line) ==
    LET m_ul == MatchUl(line)
        m_ol == MatchOl(line)
    IN IF m_ul[1]
       THEN [st EXCEPT
               !.out = (IF st.in_ul THEN @ ELSE Append(@, <<"<ul>">>))
                          \o << <<"<li>">> \o m_ul[2] \o <<"</li>">> >>,
               !.in_ul = TRUE]
       ELSE IF m_ol[1]
       THEN [st EXCEPT
               !.out = (IF st.in_ol THEN @ ELSE Append(@, <<"<ol>">>))
                          \o << <<"<li>">> \o m_ol[2] \o <<"</li>">> >>,
               !.in_ol = TRUE]
       ELSE [out |-> st.out
                       \o (IF st.in_ul THEN << <<"</ul>">> >> ELSE <<>>)
                       \o (IF st.in_ol THEN << <<"</ol>">> >> ELSE <<>>)
                       \o <<line>>,
             in_ul |-> FALSE, in_ol |-> FALSE]

RECURSIVE ListLoop(_, _)
ListLoop(st, lines) ==
    IF lines = <<>> THEN st ELSE ListLoop(ListStep(st, Head(lines)), Tail(lines))

RECURSIVE JoinBr(_)
JoinBr(ls) ==
    IF ls = <<>> THEN <<>>
    ELSE IF Len(ls) = 1 THEN ls[1]
    ELSE ls[1] \o <<"<br>">> \o JoinBr(Tail(ls))

ListLines(text) ==
    LET st == ListLoop([out |-> <<>>, in_ul |-> FALSE, in_ol |-> FALSE],
                       SplitLines(text))
    IN st.out \o (IF st.in_ul THEN << <<"</ul>">> >> ELSE <<>>)
              \o (IF st.in_ol THEN << <<"</ol>">> >> ELSE <<>>)

markdown_to_html(text) ==
    IF text = <<>> THEN <<>>
    ELSE JoinBr(ListLines(InlineMarkup(EscapeHtml(text))))


\* ------------------------------------------------------------ ModelWorker
\* json.loads of the output wrapped in double quotes: <<ok, decoded>>.
\* A raw double quote, a raw control character (newline) and an invalid or
\* unfinished escape make it raise.  The escapes of the texts used here are
\* backslash followed by n, t, backslash, double quote or slash.
RECURSIVE JsonUnescape(_)
JsonUnescape(s) ==
    IF s = <<>> THEN <<TRUE, <<>>>>
    ELSE IF Head(s) \in {"\"", "\n", "\t"} THEN <<FALSE, <<>>>>
    ELSE IF Head(s) = "\\"
    THEN IF Len(s) >= 2 /\ s[2] \in {"n", "t", "\\", "\"", "/"}
         THEN LET c == CASE s[2] = "n" -> "\n"
                         [] s[2] = "t" -> "\t"
                         [] OTHER -> s[2]
                  rest == JsonUnescape(SubSeq(s, 3, Len(s)))
              IN <<rest[1], <<c>> \o rest[2]>>
         ELSE <<FALSE, <<>>>>
    ELSE LET rest == JsonUnescape(Tail(s))
         IN <<rest[1], <<Head(s)>> \o rest[2]>>

\* subprocess.run(cmd, shell=True, capture_output=True, timeout=...) under
\* each behaviour of the environment: what it raises, and result.stdout.
\* A missing ollama executable is reported by the shell (exit status 127,
\* nothing on stdout); FileNotFoundError needs the shell itself to be missing.
subprocess_run(env) ==
    CASE env.kind = "output"         -> [raised |-> "none", stdout |-> env.stdout]
      [] env.kind = "ollama_missing" -> [raised |-> "none", stdout |-> <<>>]
      [] env.kind = "timeout"        -> [raised |-> "TimeoutExpired", stdout |-> <<>>]
      [] env.kind = "shell_missing"  -> [raised |-> "FileNotFoundError", stdout |-> <<>>]
      [] OTHER                       -> [raised |-> "Exception", stdout |-> <<>>]

\* the error messages, each a text of one token
ERR_NO_OUTPUT == <<"Error: Model returned no output.">>
ERR_TIMEOUT == <<"Error: Model timed out.">>
ERR_NOT_FOUND == <<"Error: 'ollama' not found. Please install or run Ollama.">>
ERR_OTHER == <<"Error: str(e)">>

Signal(name, arg) == [sig |-> name, arg |-> arg]

\* a slip that omits the return after the report of an empty output
run_no_return(env) ==
    LET result == subprocess_run(env)
        output == Strip(result.stdout)
        dec == JsonUnescape(output)
        output_decoded == IF dec[1] THEN dec[2] ELSE output
    IN CASE result.raised = "TimeoutExpired"    -> <<Signal("error", ERR_TIMEOUT)>>
         [] result.raised = "FileNotFoundError" -> <<Signal("error", ERR_NOT_FOUND)>>
         [] result.raised = "Exception"         -> <<Signal("error", ERR_OTHER)>>
         [] OTHER ->
              (IF output_decoded = <<>>
               THEN <<Signal("error", ERR_NO_OUTPUT)>> ELSE <<>>)
              \o <<Signal("result_ready", output_decoded)>>

\* the signals ModelWorker.run emits, in order, after the prompt was built
run(env) ==
    LET result == subprocess_run(env)
        output == Strip(result.stdout)
        dec == JsonUnescape(output)
        output_decoded == IF dec[1] THEN dec[2] ELSE output
    IN CASE result.raised = "TimeoutExpired"    -> <<Signal("error", ERR_TIMEOUT)>>
         [] result.raised = "FileNotFoundError" -> <<Signal("error", ERR_NOT_FOUND)>>
         [] result.raised = "Exception"         -> <<Signal("error", ERR_OTHER)>>
         [] OTHER ->
              IF output_decoded = <<>>
              THEN <<Signal("error", ERR_NO_OUTPUT)>>
              ELSE <<Signal("result_ready", output_decoded)>>

\* ------------------------------------------------------ environment inputs
Pieces == { <<"a">>, <<"*", "a", "*">> }

RECURSIVE PieceSeqs(_)
PieceSeqs(n) ==
    IF n = 0 THEN { <<>> }
    ELSE LET shorter == PieceSeqs(n - 1)
         IN shorter \cup { s \o p : s \in shorter, p \in Pieces }

Stdouts == PieceSeqs(MaxPieces)

Envs == { [kind |-> "output", stdout |-> t] : t \in Stdouts }
          \cup { [kind |-> k, stdout |-> <<>>] :
                   k \in {"ollama_missing", "timeout", "shell_missing", "os_error"} }

\* the outputs of the sessions with one submission (SpecRun)
RichPieces == Pieces \cup { BOT_NAME \o <<":">>, <<"*">>, <<" ">>, <<"\\">>, <<"n">>,
                           <<"\"">>, <<"l", "e", "o", ":">> }

RECURSIVE RichPieceSeqs(_)
RichPieceSeqs(n) ==
    IF n = 0 THEN { <<>> }
    ELSE LET shorter == RichPieceSeqs(n - 1)
         IN shorter \cup { s \o p : s \in shorter, p \in RichPieces }

RichEnvs == { [kind |-> "output", stdout |-> t] : t \in RichPieceSeqs(MaxRichPieces) }
              \cup { [kind |-> k, stdout |-> <<>>] :
                       k \in {"ollama_missing", "timeout", "shell_missing", "os_error"} }

UserInputs == { <<>>, <<" ">>, <<" ", "*", "h", "*">> }

\* ------------------------------------------------------------------- state
VARIABLES
    conversation_history,   \* the global list of transcript lines
    messages,               \* self.messages: [sender, html]
    typing_timer,           \* typing_indicator_timer is active
    typing_dots,
    typing_msg_index,
    reveal_timer,           \* reveal_timer is active
    reveal_full_text,
    reveal_index,
    reveal_msg_index,
    input_enabled,          \* input_field.isEnabled()
    send_enabled,           \* send_button.isEnabled()
    worker,                 \* self.worker: number of the latest ModelWorker, 0 for None
    workers,                \* every ModelWorker created, in creation order
    event_queue,            \* signals queued for the interactive thread
    dialogs,                \* QMessageBox.warning dialogs open (argument of each)
    n_submitted,            \* history: accepted non-empty submissions
    n_success,              \* history: responses handled by display_response
    reveal_ticks,           \* history: reveal-timer ticks since the last _start_reveal
    last_op                 \* history: the handler that ran last

vars == <<conversation_history, messages, typing_timer, typing_dots,
          typing_msg_index, reveal_timer, reveal_full_text, reveal_index,
          reveal_msg_index, input_enabled, send_enabled, worker, workers,
          event_queue, dialogs, n_submitted, n_success, reveal_ticks, last_op>>

uiVars == <<messages, typing_timer, typing_dots, typing_msg_index, reveal_timer,
            reveal_full_text, reveal_index, reveal_msg_index>>

\* f"{label}: {text}"
Line(label, text) == label \o <<":", " ">> \o text

USER == <<"U", "s", "e", "r">>

_create_message_block(sender, inner_html) ==
    [sender_color |-> IF sender = BOT_NAME THEN "bot_color" ELSE "user_color",
     sender |-> sender,
     inner |-> inner_html]

Entry(sender, inner_html) ==
    [sender |-> sender, html |-> _create_message_block(sender, inner_html)]

\* a slip that removes the first entry instead of the entry at idx
Pop_first(list, idx) ==
    SubSeq(list, 2, Len(list))

\* list.pop(idx) for a 0-based idx
Pop(list, idx) ==
    SubSeq(list, 1, idx) \o SubSeq(list, idx + 2, Len(list))

InRange(idx, list) == 0 <= idx /\ idx < Len(list)

Init ==
    \E welcome_text \in WELCOME_MESSAGES :
        /\ conversation_history = <<Line(BOT_NAME, welcome_text)>>
        /\ messages = <<Entry(BOT_NAME, markdown_to_html(welcome_text))>>
        /\ typing_timer = FALSE
        /\ typing_dots = 0
        /\ typing_msg_index = None
        /\ reveal_timer = FALSE
        /\ reveal_full_text = <<>>
        /\ reveal_index = 0
        /\ reveal_msg_index = None
        /\ input_enabled = TRUE
        /\ send_enabled = TRUE
        /\ worker = 0
        /\ workers = <<>>
        /\ event_queue = <<>>
        /\ dialogs = <<>>
        /\ n_submitted = 0
        /\ n_success = 0
        /\ reveal_ticks = 0
        /\ last_op = "__init__"


\* --------------------------------------------------- ChatWindow: animations
\* The methods below are written over ui, the record of the fields of
\* ChatWindow that the animations read and write.
UI == [messages |-> messages,
       typing_timer |-> typing_timer,
       typing_dots |-> typing_dots,
       typing_msg_index |-> typing_msg_index,
       reveal_timer |-> reveal_timer,
       reveal_full_text |-> reveal_full_text,
       reveal_index |-> reveal_index,
       reveal_msg_index |-> reveal_msg_index]

SetUI(ui) ==
    /\ messages' = ui.messages
    /\ typing_timer' = ui.typing_timer
    /\ typing_dots' = ui.typing_dots
    /\ typing_msg_index' = ui.typing_msg_index
    /\ reveal_timer' = ui.reveal_timer
    /\ reveal_full_text' = ui.reveal_full_text
    /\ reveal_index' = ui.reveal_index
    /\ reveal_msg_index' = ui.reveal_msg_index

_start_typing_indicator(ui) ==
    LET msgs == Append(ui.messages, Entry(BOT_NAME, <<" ">>))
    IN [ui EXCEPT !.messages = msgs,
                  !.typing_msg_index = Len(msgs) - 1,
                  !.typing_dots = 0,
                  !.typing_timer = TRUE]

\* a slip that stops the indicator timer and leaves the indicator entry
_stop_typing_indicator_entry_left(ui) ==
    IF ui.typing_msg_index = None THEN ui
    ELSE [ui EXCEPT !.typing_timer = FALSE,
                    !.typing_msg_index = None]

\* a slip that removes the indicator entry and leaves its timer running
_stop_typing_indicator_timer_left(ui) ==
    IF ui.typing_msg_index = None THEN ui
    ELSE [ui EXCEPT !.messages = IF InRange(ui.typing_msg_index, ui.messages)
                                 THEN Pop(ui.messages, ui.typing_msg_index)
                                 ELSE ui.messages,
                    !.typing_msg_index = None]

_stop_typing_indicator(ui) ==
    IF ui.typing_msg_index = None THEN ui
    ELSE [ui EXCEPT !.typing_timer = FALSE,
                    !.messages = IF InRange(ui.typing_msg_index, ui.messages)
                                 THEN Pop(ui.messages, ui.typing_msg_index)
                                 ELSE ui.messages,
                    !.typing_msg_index = None]

DotsHtml(n) ==
    <<"<span>", " ">> \o [i \in 1..n |-> "."] \o <<" ", "</span>">>

\* the sender of the entries appended by the fallback branches: the literal
\* text {BOT_NAME} of a string that is not an f-string
FALLBACK_SENDER == <<"{", "B", "O", "T", "_", "N", "A", "M", "E", "}">>

\* a slip that counts the dots modulo 5
_advance_dots_mod5(ui) ==
    IF ui.typing_msg_index = None THEN ui
    ELSE LET dots == (ui.typing_dots + 1) % 5
             block == _create_message_block(BOT_NAME, DotsHtml(dots))
         IN IF InRange(ui.typing_msg_index, ui.messages)
            THEN [ui EXCEPT !.typing_dots = dots,
                            !.messages[ui.typing_msg_index + 1].html = block]
            ELSE [ui EXCEPT !.typing_dots = dots,
                            !.messages = Append(@, [sender |-> FALLBACK_SENDER,
                                                    html |-> block]),
                            !.typing_msg_index = Len(ui.messages)]

_advance_dots(ui) ==
    IF ui.typing_msg_index = None THEN ui
    ELSE LET dots == (ui.typing_dots + 1) % 4
             block == _create_message_block(BOT_NAME, DotsHtml(dots))
         IN IF InRange(ui.typing_msg_index, ui.messages)
            THEN [ui EXCEPT !.typing_dots = dots,
                            !.messages[ui.typing_msg_index + 1].html = block]
            ELSE [ui EXCEPT !.typing_dots = dots,
                            !.messages = Append(@, [sender |-> FALLBACK_SENDER,
                                                    html |-> block]),
                            !.typing_msg_index = Len(ui.messages)]

\* a slip that reveals into the last entry instead of a new placeholder
_start_reveal_no_entry(ui, text) ==
    [ui EXCEPT !.reveal_full_text = text,
               !.reveal_index = 0,
               !.reveal_msg_index = Len(ui.messages) - 1,
               !.reveal_timer = TRUE]

_start_reveal(ui, text) ==
    LET msgs == Append(ui.messages, Entry(BOT_NAME, <<>>))
    IN [ui EXCEPT !.reveal_full_text = text,
                  !.reveal_index = 0,
                  !.messages = msgs,
                  !.reveal_msg_index = Len(msgs) - 1,
                  !.reveal_timer = TRUE]

\* a slip that stops the timer in the tick that reveals the last character
_reveal_next_char_stop_early(ui) ==
    IF ui.reveal_index >= Len(ui.reveal_full_text)
    THEN [ui EXCEPT !.reveal_timer = FALSE,
                    !.reveal_full_text = <<>>,
                    !.reveal_index = 0,
                    !.reveal_msg_index = None]
    ELSE LET index == ui.reveal_index + 1
             partial == SubSeq(ui.reveal_full_text, 1, index)
             block == _create_message_block(BOT_NAME, markdown_to_html(partial))
             last == index = Len(ui.reveal_full_text)
         IN [ui EXCEPT !.reveal_index = IF last THEN 0 ELSE index,
                       !.reveal_timer = ~last,
                       !.reveal_full_text = IF last THEN <<>> ELSE @,
                       !.reveal_msg_index = IF last THEN None ELSE @,
                       !.messages[ui.reveal_msg_index + 1].html = block]

\* a slip that slices the text before the index is advanced
_reveal_next_char_stale_index(ui) ==
    IF ui.reveal_index >= Len(ui.reveal_full_text)
    THEN [ui EXCEPT !.reveal_timer = FALSE,
                    !.reveal_full_text = <<>>,
                    !.reveal_index = 0,
                    !.reveal_msg_index = None]
    ELSE LET index == ui.reveal_index + 1
             partial == SubSeq(ui.reveal_full_text, 1, ui.reveal_index)
             block == _create_message_block(BOT_NAME, markdown_to_html(partial))
         IN [ui EXCEPT !.reveal_index = index,
                       !.messages[ui.reveal_msg_index + 1].html = block]

_reveal_next_char(ui) ==
    IF ui.reveal_index >= Len(ui.reveal_full_text)
    THEN [ui EXCEPT !.reveal_timer = FALSE,
                    !.reveal_full_text = <<>>,
                    !.reveal_index = 0,
                    !.reveal_msg_index = None]
    ELSE LET index == ui.reveal_index + 1
             partial == SubSeq(ui.reveal_full_text, 1, index)
             block == _create_message_block(BOT_NAME, markdown_to_html(partial))
         IN IF InRange(ui.reveal_msg_index, ui.messages)
            THEN [ui EXCEPT !.reveal_index = index,
                            !.messages[ui.reveal_msg_index + 1].html = block]
            ELSE [ui EXCEPT !.reveal_index = index,
                            !.messages = Append(@, [sender |-> FALLBACK_SENDER,
                                                    html |-> block]),
                            !.reveal_msg_index = Len(ui.messages)]

\* typing_indicator_timer.timeout
TypingTick ==
    /\ typing_timer
    /\ SetUI(_advance_dots(UI))
    /\ last_op' = "_advance_dots"
    /\ UNCHANGED <<conversation_history, input_enabled, send_enabled, worker,
                   workers, event_queue, dialogs, n_submitted, n_success,
                   reveal_ticks>>

\* reveal_timer.timeout
RevealTick ==
    /\ reveal_timer
    /\ SetUI(_reveal_next_char(UI))
    /\ reveal_ticks' = reveal_ticks + 1
    /\ last_op' = "_reveal_next_char"
    /\ UNCHANGED <<conversation_history, input_enabled, send_enabled, worker,
                   workers, event_queue, dialogs, n_submitted, n_success>>

\* ------------------------------------------- ChatWindow: sending, responses
NewWorker(user_input) ==
    [pc |-> "start", user_input |-> user_input, full_prompt |-> <<>>,
     emitted |-> <<>>]

\* a slip that disables the input field and leaves the send button enabled
DisableInput_field_only ==
    /\ input_enabled' = FALSE
    /\ send_enabled' = send_enabled

\* input_field.setDisabled(True); send_button.setDisabled(True)
DisableInput ==
    /\ input_enabled' = FALSE
    /\ send_enabled' = FALSE

\* Enter in the input field or a click on the send button; Qt delivers
\* neither to a disabled widget nor to a window blocked by a modal dialog
send_message(text) ==
    LET user_input == Strip(text)
    IN /\ dialogs = <<>>
       /\ input_enabled \/ send_enabled
       /\ IF user_input = <<>>
          THEN /\ last_op' = "send_message_empty"
               /\ UNCHANGED <<conversation_history, uiVars, input_enabled,
                              send_enabled, worker, workers, n_submitted>>
          ELSE /\ n_submitted < MaxSubmissions
               /\ conversation_history' =
                      Append(conversation_history, Line(USER, user_input))
               /\ SetUI(_start_typing_indicator(
                      [UI EXCEPT !.messages =
                          Append(@, Entry(YOU, markdown_to_html(user_input)))]))
               /\ DisableInput
               /\ workers' = Append(workers, NewWorker(user_input))
               /\ worker' = Len(workers) + 1
               /\ n_submitted' = n_submitted + 1
               /\ last_op' = "send_message"
       /\ UNCHANGED <<event_queue, dialogs, n_success, reveal_ticks>>

SendMessage == \E text \in UserInputs : send_message(text)

\* position of the last c in s, 0 when there is none
LastIndexOf(s, c) ==
    IF \E i \in 1..Len(s) : s[i] = c
    THEN CHOOSE i \in 1..Len(s) : s[i] = c /\ \A k \in (i + 1)..Len(s) : s[k] # c
    ELSE 0

\* a slip that splits at the last colon, which drops a repeated label too
StripBotPrefix_rsplit(response_text) ==
    IF StartsWith(Lower(Strip(response_text)), Lower(BOT_NAME) \o <<":">>)
    THEN Strip(SubSeq(response_text, LastIndexOf(response_text, ":") + 1,
                      Len(response_text)))
    ELSE response_text

\* the sanitising step of display_response
StripBotPrefix(response_text) ==
    IF StartsWith(Lower(Strip(response_text)), Lower(BOT_NAME) \o <<":">>)
    THEN Strip(SubSeq(response_text, FirstIndexOf(response_text, ":") + 1,
                      Len(response_text)))
    ELSE response_text

display_response(response_text, from) ==
    LET cleaned == StripBotPrefix(response_text)
    IN /\ SetUI(_start_reveal(_stop_typing_indicator(UI), cleaned))
       /\ conversation_history' =
              Append(conversation_history, Line(BOT_NAME, cleaned))
       /\ input_enabled' = TRUE
       /\ send_enabled' = TRUE
       /\ workers' = [workers EXCEPT ![from].pc = "handled"]
       /\ n_success' = n_success + 1
       /\ reveal_ticks' = 0
       /\ last_op' = "display_response"
       /\ UNCHANGED <<worker, dialogs, n_submitted>>

\* a slip that records the error message as a turn of the bot
display_error_appends(error_message, from) ==
    /\ SetUI(_stop_typing_indicator(UI))
    /\ conversation_history' =
           Append(conversation_history, Line(BOT_NAME, <<"E">>))
    /\ dialogs' = Append(dialogs, [message |-> error_message, from |-> from])
    /\ last_op' = "display_error"
    /\ UNCHANGED <<input_enabled, send_enabled, worker, workers, n_submitted,
                   n_success, reveal_ticks>>

\* display_error up to the call of QMessageBox.warning, which blocks in a
\* nested event loop until the user closes the dialog
display_error(error_message, from) ==
    /\ SetUI(_stop_typing_indicator(UI))
    /\ dialogs' = Append(dialogs, [message |-> error_message, from |-> from])
    /\ last_op' = "display_error"
    /\ UNCHANGED <<conversation_history, input_enabled, send_enabled, worker,
                   workers, n_submitted, n_success, reveal_ticks>>

\* a slip that returns from the dialog without restoring the input
display_error_return_no_enable ==
    /\ dialogs # <<>>
    /\ dialogs' = SubSeq(dialogs, 1, Len(dialogs) - 1)
    /\ workers' = [workers EXCEPT ![dialogs[Len(dialogs)].from].pc = "handled"]
    /\ last_op' = "display_error_return"
    /\ UNCHANGED <<conversation_history, uiVars, input_enabled, send_enabled,
                   worker, event_queue, n_submitted, n_success, reveal_ticks>>

\* the rest of display_error, once the innermost dialog is closed
display_error_return ==
    /\ dialogs # <<>>
    /\ dialogs' = SubSeq(dialogs, 1, Len(dialogs) - 1)
    /\ input_enabled' = TRUE
    /\ send_enabled' = TRUE
    /\ workers' = [workers EXCEPT ![dialogs[Len(dialogs)].from].pc = "handled"]
    /\ last_op' = "display_error_return"
    /\ UNCHANGED <<conversation_history, uiVars, worker, event_queue,
                   n_submitted, n_success, reveal_ticks>>

\* the event loop of the interactive thread delivers the oldest queued signal
DeliverResult ==
    /\ event_queue # <<>>
    /\ Head(event_queue).sig = "result_ready"
    /\ event_queue' = Tail(event_queue)
    /\ display_response(Head(event_queue).arg, Head(event_queue).from)

DeliverError ==
    /\ event_queue # <<>>
    /\ Head(event_queue).sig = "error"
    /\ event_queue' = Tail(event_queue)
    /\ display_error(Head(event_queue).arg, Head(event_queue).from)

\* ------------------------------------------------- ModelWorker thread steps
\* the system instruction, a text of one token
PROMPT == <<"PROMPT">>

\* "\n".join(lines)
RECURSIVE JoinNl(_)
JoinNl(lines) ==
    IF lines = <<>> THEN <<>>
    ELSE IF Len(lines) = 1 THEN lines[1]
    ELSE lines[1] \o <<"\n">> \o JoinNl(Tail(lines))

\* a slip that leaves the newest line out of the transcript
full_prompt_of_without_last(history) ==
    PROMPT \o <<"\n", "\n">> \o JoinNl(SubSeq(history, 1, Len(history) - 1))
        \o <<"\n">> \o BOT_NAME \o <<":">>

\* PROMPT + "\n\n" + "\n".join(conversation_history) + f"\n{BOT_NAME}:"
full_prompt_of(history) ==
    PROMPT \o <<"\n", "\n">> \o JoinNl(history) \o <<"\n">> \o BOT_NAME \o <<":">>

\* run builds full_prompt from the global list
WorkerBuildPrompt(w) ==
    /\ workers[w].pc = "start"
    /\ workers' = [workers EXCEPT ![w].pc = "called",
                                  ![w].full_prompt = full_prompt_of(conversation_history)]
    /\ UNCHANGED <<conversation_history, uiVars, input_enabled, send_enabled,
                   worker, event_queue, dialogs, n_submitted, n_success,
                   reveal_ticks, last_op>>

\* the external process ends in one of its ways and run emits its signals;
\* a queued signal carries, as history, the behaviour of the environment
\* (cause) that led to it
WorkerFinish(w, env) ==
    /\ workers[w].pc = "called"
    /\ LET sigs == run(env)
       IN /\ workers' = [workers EXCEPT ![w].pc = "finished",
                                        ![w].emitted = [i \in 1..Len(sigs) |-> sigs[i].sig]]
          /\ event_queue' = event_queue \o
                 [i \in 1..Len(sigs) |->
                     [sig |-> sigs[i].sig, arg |-> sigs[i].arg, from |-> w,
                      cause |-> env.kind]]
    /\ UNCHANGED <<conversation_history, uiVars, input_enabled, send_enabled,
                   worker, dialogs, n_submitted, n_success, reveal_ticks, last_op>>

WorkerStart == \E w \in 1..Len(workers) : WorkerBuildPrompt(w)

WorkerRun == \E w \in 1..Len(workers) : \E env \in Envs : WorkerFinish(w, env)

Next ==
    \/ SendMessage
    \/ TypingTick
    \/ RevealTick
    \/ DeliverResult
    \/ DeliverError
    \/ display_error_return
    \/ WorkerStart
    \/ WorkerRun

Spec == Init /\ [][Next]_vars

\* sessions with a single submission, whose model output is drawn from the
\* richer set RichEnvs
SendFirst == n_submitted = 0 /\ SendMessage

WorkerRunRich == \E w \in 1..Len(workers) : \E env \in RichEnvs : WorkerFinish(w, env)

NextRun ==
    \/ SendFirst
    \/ TypingTick
    \/ RevealTick
    \/ DeliverResult
    \/ DeliverError
    \/ display_error_return
    \/ WorkerStart
    \/ WorkerRunRich

SpecRun == Init /\ [][NextRun]_vars

TypeOK ==
    /\ typing_dots \in 0..3
    /\ typing_timer \in BOOLEAN /\ reveal_timer \in BOOLEAN
    /\ input_enabled \in BOOLEAN /\ send_enabled \in BOOLEAN
    /\ worker \in 0..Len(workers)
    /\ n_submitted \in 0..MaxSubmissions


\* ================================================================== claims
\* the invocations whose completion callback has not been handled to its end
InFlight == {w \in 1..Len(workers) : workers[w].pc # "handled"}

RevealInProgress == reveal_timer /\ reveal_index < Len(reveal_full_text)

IsUserLine(line) == StartsWith(line, USER \o <<":", " ">>)

IsBotLine(line) == StartsWith(line, BOT_NAME \o <<":", " ">>)

\* the text of a transcript line, after its speaker label
TextOfLine(line) == SubSeq(line, FirstIndexOf(line, ":") + 2, Len(line))

\* C1: at most one model invocation is in flight; the input field and the
\* send button are disabled exactly while an invocation is in flight (from
\* dispatch until display_response or display_error has run), whether or
\* not a reveal is in progress.
C1_OneInvocationInFlight ==
    /\ Cardinality(InFlight) <= 1
    /\ input_enabled = send_enabled
    /\ input_enabled <=> InFlight = {}

\* C1 witness: a second submission was dispatched while the reveal of the
\* first response was still in progress.
C1_Witness ==
    /\ RevealInProgress
    /\ worker = 2
    /\ InFlight = {2}
    /\ ~input_enabled

\* C2 (as claimed): the typing-indicator timer and the reveal timer are
\* never both running.
C2_OneAnimation == ~(typing_timer /\ reveal_timer)

\* C3 (as claimed, in the form a finite run refutes): a reveal is never
\* abandoned, so every bot entry of the view that is no longer (or not) the
\* target of the running reveal or of the indicator shows the markdown
\* rendering of the complete text of its turn.
C3_RevealRunsToFullLength ==
    \A i \in 2..Len(conversation_history) :
        ( /\ i <= Len(messages)
          /\ IsBotLine(conversation_history[i])
          /\ i - 1 # typing_msg_index
          /\ ~(reveal_timer /\ i - 1 = reveal_msg_index) )
        => messages[i].html.inner
              = markdown_to_html(TextOfLine(conversation_history[i]))

\* C4 (as claimed): while an indicator or a reveal is active its target
\* index is the index of the last entry of self.messages.
C4_TargetIsLastEntry ==
    /\ typing_timer => typing_msg_index = Len(messages) - 1
    /\ reveal_timer => reveal_msg_index = Len(messages) - 1

IsPrefixOf(a, b) == Len(a) <= Len(b) /\ SubSeq(b, 1, Len(a)) = a

\* C5: the conversation store only grows at its end, and its length is
\* 1 + accepted non-empty submissions + successful responses.
C5_StoreAppendOnly ==
    /\ [](Len(conversation_history) = 1 + n_submitted + n_success)
    /\ [][IsPrefixOf(conversation_history, conversation_history')]_vars

\* C5 witness: two submissions, one answered and one failed.
C5_Witness ==
    /\ n_submitted = 2
    /\ n_success = 1
    /\ last_op = "display_error_return"
    /\ Len(conversation_history) = 4

\* C6: while the callback of an invocation is outstanding, the last turn of
\* the store is the User turn of the submission it answers (no later User
\* turn was appended); and every Bot turn other than the greeting is
\* preceded by a User turn.
C6_CallbackOrdering ==
    /\ \A w \in InFlight :
          conversation_history[Len(conversation_history)]
              = Line(USER, workers[w].user_input)
    /\ \A i \in 2..Len(conversation_history) :
          IsBotLine(conversation_history[i])
              => \E j \in 1..(i - 1) : IsUserLine(conversation_history[j])

\* C6 witness: the second response was handled, after both User turns.
C6_Witness ==
    /\ n_success = 2
    /\ Len(conversation_history) = 5
    /\ IsBotLine(conversation_history[5])
    /\ IsUserLine(conversation_history[4])

\* C7: display_error leaves the store as it was after the submission,
\* removes the indicator entry, stops its timer and shows the message; when
\* the dialog is closed the input field and the send button are enabled.
C7_DisplayError ==
    /\ [][Len(dialogs') > Len(dialogs) =>
            /\ conversation_history' = conversation_history
            /\ conversation_history[Len(conversation_history)]
                  = Line(USER, workers[Head(event_queue).from].user_input)
            /\ typing_msg_index # None
            /\ messages' = Pop(messages, typing_msg_index)
            /\ ~typing_timer'
            /\ typing_msg_index' = None
            /\ dialogs'[Len(dialogs')].message = Head(event_queue).arg
            /\ ~input_enabled' /\ ~send_enabled']_vars
    /\ [][Len(dialogs') < Len(dialogs) =>
            /\ conversation_history' = conversation_history
            /\ messages' = messages
            /\ ~typing_timer'
            /\ input_enabled' /\ send_enabled']_vars

\* C7 witness: a failed invocation was handled while an earlier response
\* was still being revealed.
C7_Witness ==
    /\ last_op = "display_error_return"
    /\ input_enabled /\ send_enabled
    /\ ~typing_timer
    /\ reveal_timer
    /\ IsUserLine(conversation_history[Len(conversation_history)])

\* C8 (as claimed): a reveal of a text of length L >= 1 is Idle after L
\* ticks, so while the reveal timer runs fewer than L ticks have happened.
C8_IdleAfterLTicks ==
    (reveal_timer /\ Len(reveal_full_text) >= 1)
        => reveal_ticks < Len(reveal_full_text)

\* C8 (amended): a reveal of a text of length L shows the whole text after
\* L ticks and reaches Idle with tick L + 1: the timer is still running
\* after each of the first L ticks, and the tick that finds the text fully
\* revealed stops the timer and clears the reveal state.
C8_IdleAfterLPlusOneTicks ==
    /\ [](reveal_timer => /\ reveal_ticks = reveal_index
                          /\ reveal_ticks <= Len(reveal_full_text))
    /\ [][(reveal_timer /\ reveal_ticks' = reveal_ticks + 1) =>
            IF reveal_ticks < Len(reveal_full_text)
            THEN reveal_timer' /\ reveal_full_text' = reveal_full_text
            ELSE /\ ~reveal_timer'
                 /\ reveal_ticks' = Len(reveal_full_text) + 1
                 /\ reveal_full_text' = <<>>
                 /\ reveal_index' = 0
                 /\ reveal_msg_index' = None]_vars

\* C8 witness: a reveal of at least two characters has reached Idle.
C8_Witness ==
    /\ ~reveal_timer
    /\ last_op = "_reveal_next_char"
    /\ reveal_ticks >= 3

\* C9: while a reveal runs, after its k-th tick its entry holds the message
\* block of markdown_to_html of the first k characters of the text, and the
\* empty placeholder before the first tick.
C9_PrefixRendered ==
    reveal_timer =>
        /\ InRange(reveal_msg_index, messages)
        /\ reveal_index = reveal_ticks
        /\ messages[reveal_msg_index + 1] =
              IF reveal_ticks = 0
              THEN Entry(BOT_NAME, <<>>)
              ELSE Entry(BOT_NAME,
                         markdown_to_html(SubSeq(reveal_full_text, 1, reveal_ticks)))

\* C9 witness: the third tick of a reveal turned the text into italics.
C9_Witness ==
    /\ reveal_timer
    /\ reveal_ticks = 3
    /\ reveal_full_text = <<"*", "a", "*">>
    /\ messages[reveal_msg_index + 1].html.inner = <<"<i>", "a", "</i>">>

\* C10: every run of ModelWorker.run emits exactly one signal, result_ready
\* or error, and nothing before the external process has ended.
C10_ExactlyOneSignal ==
    \A w \in 1..Len(workers) :
        IF workers[w].pc \in {"start", "called"}
        THEN workers[w].emitted = <<>>
        ELSE /\ Len(workers[w].emitted) = 1
             /\ workers[w].emitted[1] \in {"result_ready", "error"}

\* C10 witness: the unescape step failed on an unfinished escape and the raw
\* output was emitted as the result.
C10_Witness ==
    \E w \in 1..Len(workers) :
        /\ workers[w].pc = "finished"
        /\ workers[w].emitted = <<"result_ready">>
        /\ event_queue # <<>>
        /\ Head(event_queue).arg = <<"a", "\\">>


\* C11 (as claimed): when the model runtime executable is missing, the
\* invocation is reported as the ExecutableNotFound failure, the message
\* "'ollama' not found", and not as another failure.
C11_MissingExecutableReported ==
    \A i \in 1..Len(event_queue) :
        event_queue[i].cause = "ollama_missing"
            => /\ event_queue[i].sig = "error"
               /\ event_queue[i].arg = ERR_NOT_FOUND


\* The scheduling behind the liveness claims: a started worker thread runs,
\* the external process returns or hits its timeout, the event loop of the
\* interactive thread delivers every queued signal, and the blocking error
\* notice is eventually closed, which lets display_error return.
\* The liveness claims are checked on sessions whose model output is empty,
\* one character or an italic character, with every way the external
\* process can end.
LiveEnvs == { [kind |-> "output", stdout |-> t] : t \in { <<>>, <<"a">>, <<"*", "a", "*">> } }
              \cup { [kind |-> k, stdout |-> <<>>] :
                       k \in {"ollama_missing", "timeout", "shell_missing", "os_error"} }

WorkerRunLive == \E w \in 1..Len(workers) : \E env \in LiveEnvs : WorkerFinish(w, env)

NextLive ==
    \/ SendMessage
    \/ TypingTick
    \/ RevealTick
    \/ DeliverResult
    \/ DeliverError
    \/ display_error_return
    \/ WorkerStart
    \/ WorkerRunLive

Fairness ==
    /\ WF_vars(WorkerStart)
    /\ WF_vars(WorkerRunLive)
    /\ WF_vars(DeliverResult)
    /\ WF_vars(DeliverError)
    /\ WF_vars(display_error_return)

FairSpec == Init /\ [][NextLive]_vars /\ Fairness

\* C12: whenever a submission has disabled the input field and the send
\* button, both are eventually enabled again, whether the invocation
\* succeeds or fails (given the scheduling of Fairness).
C12_InputReEnabled ==
    (~input_enabled \/ ~send_enabled) ~> (input_enabled /\ send_enabled)

\* C12 witness: two submissions failed and the input is enabled again.
C12_Witness ==
    /\ n_submitted = 2
    /\ n_success = 0
    /\ InFlight = {}
    /\ input_enabled /\ send_enabled


\* the index in the store of the User turn of the w-th submission
UserTurnIndex(w) ==
    CHOOSE k \in 1..Len(conversation_history) :
        /\ IsUserLine(conversation_history[k])
        /\ Cardinality({j \in 1..k : IsUserLine(conversation_history[j])}) = w

\* C13: the transcript a worker has built consists of the system
\* instruction, the turns that were in the store when its submission was
\* dispatched, in append order with that submission's User turn last, and
\* the bot prompt cue; and until the worker has read the store, nothing is
\* appended behind that User turn.
C13_TranscriptAtDispatch ==
    \A w \in 1..Len(workers) :
        IF workers[w].pc = "start"
        THEN UserTurnIndex(w) = Len(conversation_history)
        ELSE /\ SplitLines(workers[w].full_prompt)
                  = <<PROMPT, <<>>>>
                      \o SubSeq(conversation_history, 1, UserTurnIndex(w))
                      \o <<BOT_NAME \o <<":">>>>
             /\ conversation_history[UserTurnIndex(w)]
                  = Line(USER, workers[w].user_input)

\* C13 witness: the second worker has built its transcript of four turns
\* while the first response is still being revealed.
C13_Witness ==
    /\ Len(workers) = 2
    /\ workers[2].pc = "called"
    /\ RevealInProgress
    /\ Len(SplitLines(workers[2].full_prompt)) = 7


\* C14: send_message with an input that is empty after trimming changes
\* nothing: the store, the view list, both timers and their state, the
\* enabled state of the input field and the send button, the worker and the
\* queued signals stay as they are; so no User turn with an empty or
\* untrimmed text is ever stored.
C14_EmptyInputNoOp ==
    /\ [][(last_op' = "send_message_empty" /\ last_op # "send_message_empty") =>
            UNCHANGED <<conversation_history, uiVars, input_enabled,
                        send_enabled, worker, workers, event_queue, dialogs>>]_vars
    /\ [](\A i \in 1..Len(conversation_history) :
            IsUserLine(conversation_history[i]) =>
                LET text == TextOfLine(conversation_history[i])
                IN /\ text # <<>>
                   /\ ~IsSpace(text[1])
                   /\ ~IsSpace(text[Len(text)]))

\* C14 witness: an empty input was submitted while a response was being
\* revealed.
C14_Witness ==
    /\ last_op = "send_message_empty"
    /\ RevealInProgress
    /\ input_enabled
    /\ n_submitted = 1


\* the text display_response is to store for the response r: r without one
\* leading speaker label of the bot (compared without regard to letter case,
\* after trimming) and its ':', trimmed; r itself when it has no such prefix
ExpectedStored(r) ==
    LET t == Strip(r)
        n == Len(BOT_NAME)
    IN IF /\ Len(t) >= n + 1
          /\ Lower(SubSeq(t, 1, n)) = Lower(BOT_NAME)
          /\ t[n + 1] = ":"
       THEN Strip(SubSeq(t, n + 2, Len(t)))
       ELSE r

\* C15: display_response stores and reveals the response with the bot's
\* speaker label and ':' stripped from its start exactly once, and a
\* response that does not begin with the label unchanged.
C15_PrefixStrippedOnce ==
    [][n_success' = n_success + 1 =>
         /\ conversation_history' =
               Append(conversation_history,
                      Line(BOT_NAME, ExpectedStored(Head(event_queue).arg)))
         /\ reveal_full_text' = ExpectedStored(Head(event_queue).arg)]_vars

\* C15 witness: the response 'Leo:Leo:a' was stored as 'Leo:a'.
C15_Witness ==
    /\ last_op = "display_response"
    /\ conversation_history[Len(conversation_history)]
          = Line(BOT_NAME, BOT_NAME \o <<":", "a">>)
    /\ reveal_full_text = BOT_NAME \o <<":", "a">>


\* ------------------------------------------------ sessions on the renderer
\* Sessions with one submission whose response is a text of list lines
\* (SpecList) or a text of HTML special characters and inline markup
\* (SpecEsc); the reveal renders every prefix of it with markdown_to_html.
RECURSIVE PieceSeqsOf(_, _)
PieceSeqsOf(pieces, n) ==
    IF n = 0 THEN { <<>> }
    ELSE LET shorter == PieceSeqsOf(pieces, n - 1)
         IN shorter \cup { s \o p : s \in shorter, p \in pieces }

ListPieces == { <<"-", " ", "a">>, <<"1", ".", " ", "b">>, <<"\n">>, <<"c">> }

ListEnvs == { [kind |-> "output", stdout |-> t] :
                t \in PieceSeqsOf(ListPieces, MaxListPieces) }

WorkerRunList == \E w \in 1..Len(workers) : \E env \in ListEnvs : WorkerFinish(w, env)

NextList ==
    \/ SendFirst
    \/ TypingTick
    \/ RevealTick
    \/ DeliverResult
    \/ DeliverError
    \/ display_error_return
    \/ WorkerStart
    \/ WorkerRunList

SpecList == Init /\ [][NextList]_vars

EscPieces == { <<"&">>, <<"<">>, <<">">>, <<"*">>, <<Backquote>> }

EscEnvs == { [kind |-> "output", stdout |-> t] :
               t \in PieceSeqsOf(EscPieces, MaxEscPieces) }

WorkerRunEsc == \E w \in 1..Len(workers) : \E env \in EscEnvs : WorkerFinish(w, env)

NextEsc ==
    \/ SendFirst
    \/ TypingTick
    \/ RevealTick
    \/ DeliverResult
    \/ DeliverError
    \/ display_error_return
    \/ WorkerStart
    \/ WorkerRunEsc

SpecEsc == Init /\ [][NextEsc]_vars

\* the list tags of tokens from position i on are properly nested, given the
\* list that is open at i ("none", "ul" or "ol"), and no list is opened
\* while another is open
RECURSIVE ListsNested(_, _, _)
ListsNested(tokens, i, open) ==
    IF i > Len(tokens) THEN open = "none"
    ELSE CASE tokens[i] = "<ul>"  -> open = "none" /\ ListsNested(tokens, i + 1, "ul")
           [] tokens[i] = "<ol>"  -> open = "none" /\ ListsNested(tokens, i + 1, "ol")
           [] tokens[i] = "</ul>" -> open = "ul" /\ ListsNested(tokens, i + 1, "none")
           [] tokens[i] = "</ol>" -> open = "ol" /\ ListsNested(tokens, i + 1, "none")
           [] OTHER -> ListsNested(tokens, i + 1, open)

\* C16 (as claimed): in every rendered entry a <ul> and an <ol> are never
\* open at the same time: switching the kind of list closes the open list
\* before the other is opened, and the list tags are properly nested.
C16_ListsClosedBeforeSwitch ==
    \A i \in 1..Len(messages) : ListsNested(messages[i].html.inner, 1, "none")

\* the lengths of the maximal runs of consecutive bullet lines, in order
RECURSIVE BulletRuns(_, _)
BulletRuns(lines, cur) ==
    IF lines = <<>> THEN (IF cur > 0 THEN <<cur>> ELSE <<>>)
    ELSE IF MatchUl(Head(lines))[1] THEN BulletRuns(Tail(lines), cur + 1)
    ELSE (IF cur > 0 THEN <<cur>> ELSE <<>>) \o BulletRuns(Tail(lines), 0)

\* the number of <li> elements of each <ul> element of tokens, in order;
\* cur is -1 outside a <ul> element
RECURSIVE UlItemCounts(_, _, _)
UlItemCounts(tokens, i, cur) ==
    IF i > Len(tokens) THEN (IF cur >= 0 THEN <<cur>> ELSE <<>>)
    ELSE CASE tokens[i] = "<ul>" ->
                (IF cur >= 0 THEN <<cur>> ELSE <<>>) \o UlItemCounts(tokens, i + 1, 0)
           [] tokens[i] = "</ul>" ->
                (IF cur >= 0 THEN <<cur>> ELSE <<>>) \o UlItemCounts(tokens, i + 1, -1)
           [] tokens[i] = "<li>" /\ cur >= 0 -> UlItemCounts(tokens, i + 1, cur + 1)
           [] OTHER -> UlItemCounts(tokens, i + 1, cur)

\* C17 (as claimed): every maximal run of N consecutive bullet lines of the
\* rendered text produces exactly one <ul> element with exactly N <li>
\* elements, wherever the run occurs.
C17_OneUlPerBulletRun ==
    (reveal_timer /\ InRange(reveal_msg_index, messages)) =>
        UlItemCounts(messages[reveal_msg_index + 1].html.inner, 1, -1)
            = BulletRuns(SplitLines(InlineMarkup(EscapeHtml(
                  SubSeq(reveal_full_text, 1, reveal_index)))), 0)


\* the number of positions of seq that hold x
Count(seq, x) == Cardinality({ k \in 1..Len(seq) : seq[k] = x })

\* C18: no rendered entry contains a raw &, < or > that came from the text:
\* the tokens of an entry are tags of the renderer, entities and ordinary
\* characters, and the entry of the reveal holds exactly one entity for
\* every &, < and > of the revealed text.
C18_SpecialsEscaped ==
    /\ \A i \in 1..Len(messages) : \A k \in 1..Len(messages[i].html.inner) :
           messages[i].html.inner[k] \notin { "&", "<", ">" }
    /\ (reveal_timer /\ InRange(reveal_msg_index, messages)) =>
           LET inner == messages[reveal_msg_index + 1].html.inner
               shown == SubSeq(reveal_full_text, 1, reveal_index)
           IN /\ Count(inner, "&amp;") = Count(shown, "&")
              /\ Count(inner, "&lt;") = Count(shown, "<")
              /\ Count(inner, "&gt;") = Count(shown, ">")

C18_Witness ==
    /\ reveal_full_text = <<"*", "<", ">", "*">>
    /\ reveal_index = 4
    /\ InRange(reveal_msg_index, messages)
    /\ messages[reveal_msg_index + 1].html.inner = <<"<i>", "&lt;", "&gt;", "</i>">>


\* C19: the dot count of the indicator is always one of 0, 1, 2, 3; it is 0
\* when an indicator starts, every tick of the indicator timer advances it
\* by one step of the cycle 0, 1, 2, 3, 0, ..., and nothing else changes it.
C19_DotsCycle ==
    /\ [](typing_dots \in 0..3)
    /\ [][/\ (n_submitted' = n_submitted + 1) => typing_dots' = 0
          /\ TypingTick => typing_dots' = (typing_dots + 1) % 4
          /\ (typing_dots' # typing_dots) =>
                 (n_submitted' = n_submitted + 1 \/ TypingTick)]_vars

C19_Witness ==
    /\ last_op = "_advance_dots"
    /\ typing_timer
    /\ typing_dots = 0
    /\ InRange(typing_msg_index, messages)
    /\ messages[typing_msg_index + 1].html.inner = DotsHtml(0)


\* the invocations whose completion callback has not begun
Awaiting ==
    { w \in InFlight : \A d \in 1..Len(dialogs) : dialogs[d].from # w }

\* an entry of the message view that is a typing indicator: the entry as
\* appended, or as rewritten by a tick
IsIndicator(entry) ==
    /\ entry.sender = BOT_NAME
    /\ \/ entry.html = _create_message_block(BOT_NAME, <<" ">>)
       \/ \E n \in 0..3 : entry.html = _create_message_block(BOT_NAME, DotsHtml(n))

IndicatorEntries == { i \in 1..Len(messages) : IsIndicator(messages[i]) }

\* C20: while an invocation awaits its completion callback the message view
\* holds exactly one indicator entry, appended at dispatch as its last
\* entry, and the indicator timer runs; from the moment the success or the
\* failure callback has removed it (also while the error notice is open) no
\* indicator entry is in the list and the indicator timer is stopped.
C20_IndicatorWhileInFlight ==
    IF Awaiting # {}
    THEN /\ typing_timer
         /\ typing_msg_index = Len(messages) - 1
         /\ IndicatorEntries = { Len(messages) }
    ELSE /\ ~typing_timer
         /\ typing_msg_index = None
         /\ IndicatorEntries = {}

C20_Witness ==
    /\ n_submitted = 2
    /\ n_success = 1
    /\ RevealInProgress
    /\ Awaiting = {}
    /\ last_op = "display_error"
    /\ IndicatorEntries = {}


\* C21 (as claimed): every Bot turn of the conversation store has non-empty
\* text: a result without usable text, such as one that consists of the
\* bot's speaker label and ':' only, is never stored as a Bot turn.
C21_BotTurnsNonEmpty ==
    \A i \in 1..Len(conversation_history) :
        IsBotLine(conversation_history[i])
            => TextOfLine(conversation_history[i]) # <<>>


\* the entries of the message view that are not typing indicators, in order
TurnEntries == SelectSeq(messages, LAMBDA e : ~IsIndicator(e))

\* C22: the message view and the conversation store stay aligned: the view
\* holds one entry per turn of the store, plus one when a typing indicator
\* is present, and the i-th entry that is not an indicator has the role
\* (bot or user) of the i-th turn.
C22_ViewAlignedWithStore ==
    /\ Cardinality(IndicatorEntries) <= 1
    /\ Len(messages) = Len(conversation_history) + Cardinality(IndicatorEntries)
    /\ (typing_msg_index # None) = (IndicatorEntries # {})
    /\ Len(TurnEntries) = Len(conversation_history)
    /\ \A i \in 1..Len(TurnEntries) :
           /\ (TurnEntries[i].sender = BOT_NAME) = IsBotLine(conversation_history[i])
           /\ (TurnEntries[i].sender = YOU) = IsUserLine(conversation_history[i])
           /\ IsBotLine(conversation_history[i]) # IsUserLine(conversation_history[i])

C22_Witness ==
    /\ n_submitted = 2
    /\ n_success = 1
    /\ Len(conversation_history) = 4
    /\ Len(messages) = 5
    /\ IndicatorEntries = { 5 }
    /\ RevealInProgress


\* a step rewrites at most the entry at the 0-based position idx of the
\* message view and neither adds nor removes an entry
OnlyEntryChanged(idx) ==
    /\ Len(messages') = Len(messages)
    /\ \A j \in 1..Len(messages) : j # idx + 1 => messages'[j] = messages[j]

\* C23: the animation indices are always valid. While typing_msg_index is
\* set it is the position of the indicator entry; while the reveal timer is
\* active reveal_msg_index is the position of the entry of that reveal: the
\* entry of the last Bot turn, whose text is the text being revealed, showing
\* the prefix revealed so far. No entry was appended by a fallback branch,
\* and a tick rewrites no entry but its own.
C23_AnimationIndicesValid ==
    /\ [](/\ (typing_msg_index # None) =>
                 /\ InRange(typing_msg_index, messages)
                 /\ IsIndicator(messages[typing_msg_index + 1])
          /\ reveal_timer =>
                 /\ InRange(reveal_msg_index, messages)
                 /\ messages[reveal_msg_index + 1] =
                        Entry(BOT_NAME, markdown_to_html(
                            SubSeq(reveal_full_text, 1, reveal_index)))
                 /\ reveal_msg_index + 1 <= Len(conversation_history)
                 /\ conversation_history[reveal_msg_index + 1]
                        = Line(BOT_NAME, reveal_full_text)
                 /\ \A k \in (reveal_msg_index + 2)..Len(conversation_history) :
                        ~IsBotLine(conversation_history[k])
          /\ \A i \in 1..Len(messages) : messages[i].sender # FALLBACK_SENDER)
    /\ [][/\ TypingTick => OnlyEntryChanged(typing_msg_index)
          /\ RevealTick => OnlyEntryChanged(reveal_msg_index)]_vars

C23_Witness ==
    /\ n_submitted = 2
    /\ n_success = 1
    /\ last_op = "display_error"
    /\ typing_msg_index = None
    /\ RevealInProgress
    /\ reveal_index > 0
    /\ reveal_msg_index = 2
    /\ Len(messages) = 4

====
